---- MODULE Spec2Model ----
(***************************************************************************)
(* The user portal of dorobot-org/competition: the user and GPU-instance   *)
(* tables (backend/models.py), the request handlers and the two background *)
(* loops (backend/main.py) and the vendor client                           *)
(* (backend/control_gpufree.py).                                           *)
(*                                                                         *)
(* Every handler is an `async def` that never awaits between its first     *)
(* query and its commit, and the body of each background loop between two  *)
(* `await asyncio.sleep` calls is synchronous, so each handler and each    *)
(* loop pass is one atomic action on the committed database state.         *)
(*                                                                         *)
(* Time is counted in ticks.  The durations of the source are scaled to    *)
(* ticks; the comparisons are the source's.                                *)
(***************************************************************************)
EXTENDS Integers, Sequences, FiniteSets, TLC

VARIABLES
    users,      \* table users: id -> row                     (models.py 29-54)
    instances,  \* table gpu_instances: id -> row             (models.py 7-26)
    vstatus,    \* the vendor's status code of each of its instances, by uuid
    envToken,   \* whether GPUFREE_BEARER_TOKEN holds a usable token
    now,        \* the clock (datetime.utcnow / datetime.now(BEIJING_TZ))
    pollWake,   \* when the sleep of check_inactive_users ends
    dsPc,       \* where daily_shutdown_task is: "sleep" (line 205) or "buffer" (259)
    dsWake,     \* the time daily_shutdown_task sleeps until
    dsStart,    \* the time of the task's first computation
    fired,      \* the days (of the trigger) for which a shutdown pass ran
    sched,      \* the event loop: the coroutine that holds it, and where each
                \* background task is in its pass
    creator,    \* history: user id -> id of the account whose create_user call
                \* made the row (Null: the seed, or an account since deleted)
    last        \* the response of the latest operation, with its vendor calls

vars == <<users, instances, vstatus, envToken, now, pollWake, dsPc, dsWake,
          dsStart, fired, sched, creator, last>>

db == <<users, instances>>

-----------------------------------------------------------------------------
(* Bounds of the model *)

\* the largest id a row of the users table gets
MaxUsers == 3
\* the largest id a row of the gpu_instances table gets
MaxInstances == 2
\* the clock never passes this tick in SpecLoops
MaxTime == 2
\* days the clock runs in SpecDaily
MaxDays == 2
\* ticks of a day
DayLen == 4
\* how long before its deadline the long sleep of daily_shutdown_task may end
MaxSkew == 1

(* Program constants, scaled to ticks *)

\* MAX_USERS_PER_ADMIN (128 in the source)
MAX_USERS_PER_ADMIN == 1
\* INACTIVITY_TIMEOUT_MINUTES (180 minutes in the source)
INACTIVITY_TIMEOUT == 1
\* INACTIVITY_CHECK_INTERVAL (60 s in the source)
INACTIVITY_CHECK_INTERVAL == 1
\* DAILY_SHUTDOWN_HOUR (02:00 in the source), as a tick of the day
DAILY_SHUTDOWN_HOUR == 2
\* the sleep after a shutdown pass (60 s in the source)
SHUTDOWN_BUFFER == 2
STATUS_RUNNING == 3
STATUS_STOPPED == 5
\* some vendor status that is neither running nor stopped
STATUS_OTHER == 4

-----------------------------------------------------------------------------
(* Values *)

\* Python's None in an integer column or field
Null == -1
\* Python's None in a string column or field
NullS == "<None>"

\* Python truthiness of an Optional[int]: None and 0 are falsy
Truthy(x) == x # Null /\ x # 0
\* Python truthiness of an Optional[str]: None and "" are falsy
TruthyS(s) == s # NullS /\ s # ""
\* str.strip() on the tokens of the model
Strip(s) == IF s = " " THEN "" ELSE s

\* SQLite's INTEGER PRIMARY KEY without AUTOINCREMENT: one more than the
\* largest id in the table
\* a background task between two passes
TaskAsleep == [pc |-> "sleep", sel |-> <<>>, res |-> FALSE, log |-> <<>>]

\* the event loop with no coroutine running and both tasks in their sleep
SchedIdle == [holder |-> "none", poll |-> TaskAsleep, daily |-> TaskAsleep]

NextId(ids) == IF ids = {} THEN 1 ELSE 1 + CHOOSE m \in ids : \A i \in ids : i <= m

RECURSIVE Ascending(_)
\* the ids of a set in ascending order (the order a query returns rows in)
Ascending(S) ==
    IF S = {} THEN <<>>
    ELSE LET m == CHOOSE x \in S : \A y \in S : x <= y
         IN <<m>> \o Ascending(S \ {m})

\* the response of an operation: the operation, its outcome ("ok" or the
\* error), the row an accepted request is about, the vendor status the client read (Null:
\* none), the number of start/stop commands sent to the vendor, for a
\* loop pass the outcome per user, the users a read returns, and for a
\* start or stop that reached the vendor the time of the request
Resp(op, detail, id) ==
    [ op |-> op, detail |-> detail, id |-> id, read |-> Null, sent |-> 0, log |-> <<>>,
      seen |-> {}, at |-> Null ]

-----------------------------------------------------------------------------
(* The vendor (gpufree.cn), seen through GPUFreeClient *)

\* the instances the vendor lists; "uz" is listed without a usable id
VendorList ==
    { [id |-> 41, uuid |-> "ua"], [id |-> 42, uuid |-> "ub"], [id |-> 0, uuid |-> "uz"] }
\* the vendor instances whose status the model follows
VendorUuids == {"ua", "ub"}
StatusOf(vs, uuid) == IF uuid \in VendorUuids THEN vs[uuid] ELSE STATUS_STOPPED

\* GPUFreeClient.__init__: the token given, else the environment's; raises
\* without one, and on a token that is blank after strip()
ClientRaises(token) ==
    IF token = NullS THEN ~envToken ELSE Strip(token) = ""
\* the callers' `if user.bearer_token: GPUFreeClient(bearer_token=...) else:
\* GPUFreeClient()`
UserClientRaises(u) ==
    IF TruthyS(u.bearer_token) THEN ClientRaises(u.bearer_token) ELSE ClientRaises(NullS)

NoInst == [id |-> Null, uuid |-> NullS, status |-> Null]
\* get_instance_by_uuid: the listed instance with that uuid, or None (NoInst)
\* when the list call fails or lists none
GetInstanceByUuid(vs, listOk, uuid) ==
    IF listOk /\ \E v \in VendorList : v.uuid = uuid
    THEN LET v == CHOOSE v \in VendorList : v.uuid = uuid
         IN [id |-> v.id, uuid |-> v.uuid, status |-> StatusOf(vs, uuid)]
    ELSE NoInst
\* get_instance_by_id: the same by webide_instance_id
GetInstanceById(vs, listOk, id) ==
    IF listOk /\ \E v \in VendorList : v.id = id
    THEN LET v == CHOOSE v \in VendorList : v.id = id
         IN [id |-> v.id, uuid |-> v.uuid, status |-> StatusOf(vs, v.uuid)]
    ELSE NoInst

\* the vendor accepts a command (code 200) when the call gets through and
\* names one of its instances
Accepted(cmdOk, id, uuid) ==
    cmdOk /\ uuid \in VendorUuids /\ \E v \in VendorList : v.id = id /\ v.uuid = uuid
\* _send_instance_action: the vendor's statuses after the command
SendInstanceAction(vs, cmdOk, id, uuid, target) ==
    IF Accepted(cmdOk, id, uuid) THEN [vs EXCEPT ![uuid] = target] ELSE vs

\* start_instance / stop_instance: re-read the status, skip the command when
\* the instance is already in the wanted status, else send it.  net is the
\* fate of the two HTTP calls.
ClientAction(vs, net, id, uuid, wanted) ==
    LET inst == GetInstanceByUuid(vs, net.list, uuid)
        skip == inst # NoInst /\ inst.status = wanted
    IN  [ success |-> skip \/ Accepted(net.cmd, id, uuid),
          read    |-> inst.status,
          sent    |-> IF skip THEN 0 ELSE 1,
          vs      |-> IF skip THEN vs ELSE SendInstanceAction(vs, net.cmd, id, uuid, wanted) ]
\* start_instance without the status check of lines 186-194: the command is
\* always sent
StartInstanceAlwaysSends(vs, net, id, uuid) ==
    [ success |-> Accepted(net.cmd, id, uuid),
      read    |-> GetInstanceByUuid(vs, net.list, uuid).status,
      sent    |-> 1,
      vs      |-> SendInstanceAction(vs, net.cmd, id, uuid, STATUS_RUNNING) ]
StartInstance(vs, net, id, uuid) == ClientAction(vs, net, id, uuid, STATUS_RUNNING)
StopInstance(vs, net, id, uuid) == ClientAction(vs, net, id, uuid, STATUS_STOPPED)

\* the fates of the two HTTP calls of one start or stop
Net == [list : BOOLEAN, cmd : BOOLEAN]

-----------------------------------------------------------------------------
(* Rows *)

User(username, email, phone, is_admin, owner, instance_id, instance_uuid, bearer_token) ==
    [ username |-> username, email |-> email, phone |-> phone,
      is_admin |-> is_admin, owner |-> owner,
      state |-> "inactive", instance_id |-> instance_id,
      instance_uuid |-> instance_uuid, bearer_token |-> bearer_token,
      last_heartbeat |-> Null ]

GpuInstance(instance_id, instance_uuid) ==
    [ instance_id |-> instance_id, instance_uuid |-> instance_uuid,
      assigned_user_id |-> Null ]

\* get_current_user: the caller is a row of the users table
CurrentUser(c) == c \in DOMAIN users
\* get_current_admin_user: and an admin
CurrentAdminUser(c) == CurrentUser(c) /\ users[c].is_admin

\* init_default_users on an empty database
SeededUsers ==
    (1 :> User("admin", "admin@example.com", "13800000000", TRUE, NullS, Null, NullS, NullS))

-----------------------------------------------------------------------------
(* User management (admin only) *)

\* the users owned by the admin with this username
OwnedBy(us, name) == { u \in DOMAIN us : us[u].owner = name }

\* the UNIQUE constraints of the users table (models.py 33, 36, 37): a row
\* with these values, at this id, would repeat the username, or the
\* non-NULL email or phone, of another row; the statement then raises
\* IntegrityError
Conflict(us, uid, username, email, phone) ==
    \E u \in DOMAIN us \ {uid} :
        \/ us[u].username = username
        \/ email # NullS /\ us[u].email = email
        \/ phone # NullS /\ us[u].phone = phone

\* create_user, its checks in the source's order: "ok" or the rejection; the
\* last is the db.flush() of line 415 raising
CreateUserCheck(c, req) ==
    IF Cardinality(OwnedBy(users, users[c].username)) >= MAX_USERS_PER_ADMIN
        THEN "user limit reached"
    ELSE IF \E u \in DOMAIN users : users[u].username = req.username
        THEN "username exists"
    ELSE IF TruthyS(req.email) /\ \E u \in DOMAIN users : users[u].email = req.email
        THEN "email exists"
    ELSE IF TruthyS(req.phone) /\ \E u \in DOMAIN users : users[u].phone = req.phone
        THEN "phone exists"
    ELSE IF ~req.is_admin /\ Truthy(req.gpu_instance_id)
            /\ req.gpu_instance_id \notin DOMAIN instances
        THEN "instance does not exist"
    ELSE IF ~req.is_admin /\ Truthy(req.gpu_instance_id)
            /\ instances[req.gpu_instance_id].assigned_user_id # Null
        THEN "instance already assigned"
    ELSE IF Conflict(users, Null, req.username, req.email, req.phone)
        THEN "integrity error"
    ELSE "ok"

\* create_user: the GpuInstance row the new user gets, or Null
CreateUserInstance(req) ==
    IF ~req.is_admin /\ Truthy(req.gpu_instance_id) THEN req.gpu_instance_id ELSE Null

\* create_user without line 419: the instance is never marked assigned
AssignNothing(g, uid) == instances

\* create_user: the gpu_instances table after the commit
AssignInstance(g, uid) ==
    IF g = Null THEN instances ELSE [instances EXCEPT ![g].assigned_user_id = uid]

\* create_user: the new row
NewUser(c, req) ==
    LET g == CreateUserInstance(req)
    IN  User(req.username, req.email, req.phone, req.is_admin, users[c].username,
             IF g = Null THEN Null ELSE instances[g].instance_id,
             IF g = Null THEN NullS ELSE instances[g].instance_uuid,
             req.bearer_token)

\* POST /api/users
CreateUser(c, req) ==
    /\ CurrentAdminUser(c)
    /\ LET detail == CreateUserCheck(c, req)
           uid == NextId(DOMAIN users)
       IN  IF detail = "ok"
           THEN /\ uid <= MaxUsers
                /\ users' = (uid :> NewUser(c, req)) @@ users
                /\ instances' = AssignInstance(CreateUserInstance(req), uid)
                /\ creator' = (uid :> c) @@ creator
                /\ last' = Resp("create_user", "ok", uid)
           ELSE /\ UNCHANGED <<db, creator>>
                /\ last' = Resp("create_user", detail, Null)
    /\ UNCHANGED <<vstatus, envToken, sched, now, pollWake, dsPc, dsWake, dsStart, fired>>

\* update_user: a field of the patch that is not None replaces the column
Patched(row, patch) ==
    [ row EXCEPT
        !.username = IF patch.username # NullS THEN patch.username ELSE @,
        !.email = IF patch.email # NullS THEN patch.email ELSE @,
        !.phone = IF patch.phone # NullS THEN patch.phone ELSE @,
        !.state = IF patch.state # NullS THEN patch.state ELSE @,
        !.instance_id = IF patch.instance_id # Null THEN patch.instance_id ELSE @,
        !.instance_uuid = IF patch.instance_uuid # NullS THEN patch.instance_uuid ELSE @,
        !.bearer_token = IF patch.bearer_token # NullS THEN patch.bearer_token ELSE @ ]

\* update_user without the check of lines 484-494
UpdateUserCheckEmailUnchecked(c, uid, patch) ==
    IF uid \notin DOMAIN users THEN "user not found"
    ELSE IF users[uid].owner # users[c].username /\ uid # c THEN "not your user"
    ELSE IF patch.username # NullS
            /\ \E u \in DOMAIN users : users[u].username = patch.username /\ u # uid
        THEN "username exists"
    ELSE IF TruthyS(patch.phone)
            /\ \E u \in DOMAIN users : users[u].phone = patch.phone /\ u # uid
        THEN "phone exists"
    ELSE IF LET row == Patched(users[uid], patch)
            IN  Conflict(users, uid, row.username, row.email, row.phone)
        THEN "integrity error"
    ELSE "ok"

\* update_user, its checks: "ok" or the rejection; the last is the
\* db.commit() of line 535 raising
UpdateUserCheck(c, uid, patch) ==
    IF uid \notin DOMAIN users THEN "user not found"
    ELSE IF users[uid].owner # users[c].username /\ uid # c THEN "not your user"
    ELSE IF patch.username # NullS
            /\ \E u \in DOMAIN users : users[u].username = patch.username /\ u # uid
        THEN "username exists"
    ELSE IF TruthyS(patch.email)
            /\ \E u \in DOMAIN users : users[u].email = patch.email /\ u # uid
        THEN "email exists"
    ELSE IF TruthyS(patch.phone)
            /\ \E u \in DOMAIN users : users[u].phone = patch.phone /\ u # uid
        THEN "phone exists"
    ELSE IF LET row == Patched(users[uid], patch)
            IN  Conflict(users, uid, row.username, row.email, row.phone)
        THEN "integrity error"
    ELSE "ok"

\* PUT /api/users/{user_id}
UpdateUser(c, uid, patch) ==
    /\ CurrentAdminUser(c)
    /\ LET detail == UpdateUserCheck(c, uid, patch)
       IN  IF detail = "ok"
           THEN /\ users' = [users EXCEPT ![uid] = Patched(@, patch)]
                /\ last' = Resp("update_user", "ok", uid)
           ELSE /\ UNCHANGED users
                /\ last' = Resp("update_user", detail, Null)
    /\ UNCHANGED <<instances, vstatus, envToken, sched, creator, now, pollWake, dsPc, dsWake, dsStart, fired>>

\* delete_user without the owner check of lines 560-565
DeleteUserAnyOwner(c, uid) ==
    IF uid \notin DOMAIN users THEN "user not found"
    ELSE IF uid = c THEN "cannot delete yourself"
    ELSE "ok"

\* delete_user with the check of line 561 passing a user that has no owner
DeleteUserNoOwnerFree(c, uid) ==
    IF uid \notin DOMAIN users THEN "user not found"
    ELSE IF uid = c THEN "cannot delete yourself"
    ELSE IF users[uid].owner # NullS /\ users[uid].owner # users[c].username
        THEN "not your user"
    ELSE "ok"

\* delete_user, its checks: "ok" or the rejection
DeleteUserCheck(c, uid) ==
    IF uid \notin DOMAIN users THEN "user not found"
    ELSE IF uid = c THEN "cannot delete yourself"
    ELSE IF users[uid].owner # users[c].username THEN "not your user"
    ELSE "ok"

\* delete_user: the GpuInstance rows it releases: the first row whose
\* instance_id is the user's, when the user's instance_id is truthy
Released(row) ==
    IF Truthy(row.instance_id)
    THEN LET hit == { g \in DOMAIN instances : instances[g].instance_id = row.instance_id }
         IN  IF hit = {} THEN {} ELSE { CHOOSE g \in hit : \A h \in hit : g <= h }
    ELSE {}

\* DELETE /api/users/{user_id}
DeleteUser(c, uid) ==
    /\ CurrentAdminUser(c)
    /\ LET detail == DeleteUserCheck(c, uid)
       IN  IF detail = "ok"
           THEN /\ instances' = [ g \in DOMAIN instances |->
                                    IF g \in Released(users[uid])
                                    THEN [instances[g] EXCEPT !.assigned_user_id = Null]
                                    ELSE instances[g] ]
                /\ users' = [ u \in DOMAIN users \ {uid} |-> users[u] ]
                /\ creator' = [ u \in DOMAIN users \ {uid} |->
                                  IF creator[u] = uid THEN Null ELSE creator[u] ]
                /\ last' = Resp("delete_user", "ok", uid)
           ELSE /\ UNCHANGED <<db, creator>>
                /\ last' = Resp("delete_user", detail, Null)
    /\ UNCHANGED <<vstatus, envToken, sched, now, pollWake, dsPc, dsWake, dsStart, fired>>

\* get_users: the rows the filter of lines 318-320 selects
VisibleTo(c) ==
    { u \in DOMAIN users : users[u].owner = users[c].username \/ u = c }

\* GET /api/users
GetUsers(c) ==
    /\ CurrentAdminUser(c)
    /\ last' = [Resp("get_users", "ok", Null) EXCEPT !.seen = VisibleTo(c)]
    /\ UNCHANGED <<db, vstatus, envToken, sched, creator, now, pollWake, dsPc, dsWake, dsStart, fired>>

\* get_user, its checks: "ok" or the rejection
GetUserCheck(c, uid) ==
    IF uid \notin DOMAIN users THEN "user not found"
    ELSE IF users[uid].owner # users[c].username /\ uid # c THEN "not your user"
    ELSE "ok"

\* GET /api/users/{user_id}
GetUser(c, uid) ==
    /\ CurrentAdminUser(c)
    /\ LET detail == GetUserCheck(c, uid)
       IN  last' = IF detail = "ok"
                   THEN [Resp("get_user", "ok", uid) EXCEPT !.seen = {uid}]
                   ELSE Resp("get_user", detail, Null)
    /\ UNCHANGED <<db, vstatus, envToken, sched, creator, now, pollWake, dsPc, dsWake, dsStart, fired>>

-----------------------------------------------------------------------------
(* GPU instance management (admin only) *)

\* create_instance without the `if not instance_id` of lines 805-809
CreateInstanceCheckAnyId(uuid, listOk) ==
    LET data == GetInstanceByUuid(vstatus, listOk, uuid)
    IN  IF \E g \in DOMAIN instances : instances[g].instance_uuid = uuid
            THEN "uuid exists"
        ELSE IF ClientRaises(NullS) THEN "vendor query failed"
        ELSE IF data = NoInst THEN "uuid not found at vendor"
        ELSE IF \E g \in DOMAIN instances : instances[g].instance_id = data.id
            THEN "instance id exists"
        ELSE "ok"

\* create_instance, its checks in the source's order: "ok" or the rejection
CreateInstanceCheck(uuid, listOk) ==
    LET data == GetInstanceByUuid(vstatus, listOk, uuid)
    IN  IF \E g \in DOMAIN instances : instances[g].instance_uuid = uuid
            THEN "uuid exists"
        ELSE IF ClientRaises(NullS) THEN "vendor query failed"
        ELSE IF data = NoInst THEN "uuid not found at vendor"
        ELSE IF ~Truthy(data.id) THEN "no instance id from vendor"
        ELSE IF \E g \in DOMAIN instances : instances[g].instance_id = data.id
            THEN "instance id exists"
        ELSE "ok"

\* POST /api/instances
CreateInstance(c, uuid, listOk) ==
    /\ CurrentAdminUser(c)
    /\ LET detail == CreateInstanceCheck(uuid, listOk)
           gid == NextId(DOMAIN instances)
       IN  IF detail = "ok"
           THEN /\ gid <= MaxInstances
                /\ instances' =
                       (gid :> GpuInstance(GetInstanceByUuid(vstatus, listOk, uuid).id, uuid))
                       @@ instances
                /\ last' = Resp("create_instance", "ok", gid)
           ELSE /\ UNCHANGED instances
                /\ last' = Resp("create_instance", detail, Null)
    /\ UNCHANGED <<users, vstatus, envToken, sched, creator, now, pollWake, dsPc, dsWake, dsStart, fired>>

\* update_instance without the uniqueness check of lines 869-877
UpdateInstanceUuidUnchecked(id, patch) ==
    IF id \notin DOMAIN instances THEN "instance not found"
    ELSE IF patch.instance_id # Null
            /\ \E g \in DOMAIN instances :
                   instances[g].instance_id = patch.instance_id /\ g # id
        THEN "instance id exists"
    ELSE "ok"

\* update_instance, its checks: "ok" or the rejection
UpdateInstanceCheck(id, patch) ==
    IF id \notin DOMAIN instances THEN "instance not found"
    ELSE IF patch.instance_id # Null
            /\ \E g \in DOMAIN instances :
                   instances[g].instance_id = patch.instance_id /\ g # id
        THEN "instance id exists"
    ELSE IF patch.instance_uuid # NullS
            /\ \E g \in DOMAIN instances :
                   instances[g].instance_uuid = patch.instance_uuid /\ g # id
        THEN "uuid exists"
    ELSE "ok"

\* update_instance that also clears the assignment of the row it changes
UpdateInstanceReleases(c, id, patch) ==
    /\ CurrentAdminUser(c)
    /\ LET detail == UpdateInstanceCheck(id, patch)
       IN  IF detail = "ok"
           THEN /\ instances' =
                       [ instances EXCEPT
                           ![id].instance_id =
                               IF patch.instance_id # Null THEN patch.instance_id ELSE @,
                           ![id].instance_uuid =
                               IF patch.instance_uuid # NullS THEN patch.instance_uuid ELSE @,
                           ![id].assigned_user_id = Null ]
                /\ last' = Resp("update_instance", "ok", id)
           ELSE /\ UNCHANGED instances
                /\ last' = Resp("update_instance", detail, Null)
    /\ UNCHANGED <<users, vstatus, envToken, sched, creator, now, pollWake, dsPc, dsWake, dsStart, fired>>

\* PUT /api/instances/{id}
UpdateInstance(c, id, patch) ==
    /\ CurrentAdminUser(c)
    /\ LET detail == UpdateInstanceCheck(id, patch)
       IN  IF detail = "ok"
           THEN /\ instances' =
                       [ instances EXCEPT
                           ![id].instance_id =
                               IF patch.instance_id # Null THEN patch.instance_id ELSE @,
                           ![id].instance_uuid =
                               IF patch.instance_uuid # NullS THEN patch.instance_uuid ELSE @ ]
                /\ last' = Resp("update_instance", "ok", id)
           ELSE /\ UNCHANGED instances
                /\ last' = Resp("update_instance", detail, Null)
    /\ UNCHANGED <<users, vstatus, envToken, sched, creator, now, pollWake, dsPc, dsWake, dsStart, fired>>

\* delete_instance without the check of line 905
DeleteInstanceUnchecked(id) ==
    IF id \notin DOMAIN instances THEN "instance not found" ELSE "ok"

\* delete_instance, its checks: "ok" or the rejection
DeleteInstanceCheck(id) ==
    IF id \notin DOMAIN instances THEN "instance not found"
    ELSE IF instances[id].assigned_user_id # Null THEN "instance is assigned"
    ELSE "ok"

\* DELETE /api/instances/{id}
DeleteInstance(c, id) ==
    /\ CurrentAdminUser(c)
    /\ LET detail == DeleteInstanceCheck(id)
       IN  IF detail = "ok"
           THEN /\ instances' = [ g \in DOMAIN instances \ {id} |-> instances[g] ]
                /\ last' = Resp("delete_instance", "ok", id)
           ELSE /\ UNCHANGED instances
                /\ last' = Resp("delete_instance", detail, Null)
    /\ UNCHANGED <<users, vstatus, envToken, sched, creator, now, pollWake, dsPc, dsWake, dsStart, fired>>

-----------------------------------------------------------------------------
(* Portal endpoints of the logged-in user *)

\* portal_action: the start or stop call on the vendor client
ActionCall(act, vs, net, row) ==
    IF act = "start"
    THEN StartInstance(vs, net, row.instance_id, row.instance_uuid)
    ELSE StopInstance(vs, net, row.instance_id, row.instance_uuid)

\* portal_action with line 620 writing "active" whatever the action
ActionStateAlwaysActive(act) == "active"

\* portal_action: the user's state after a successful action
ActionState(act) == IF act = "start" THEN "active" ELSE "inactive"

\* portal_action without the check of lines 590-594: a name other than
\* "start" takes the `else` of line 615
PortalActionAnyName(u, act, net) ==
    /\ CurrentUser(u)
    /\ LET row == users[u]
           r == ActionCall(act, vstatus, net, row)
       IN  IF ~Truthy(row.instance_id) \/ ~TruthyS(row.instance_uuid)
           THEN /\ UNCHANGED <<users, vstatus>>
                /\ last' = Resp(act, "no instance configured", u)
           ELSE IF UserClientRaises(row)
           THEN /\ UNCHANGED <<users, vstatus>>
                /\ last' = Resp(act, "failed to execute action", u)
           ELSE /\ vstatus' = r.vs
                /\ users' = IF r.success
                            THEN [users EXCEPT ![u].state = ActionState(act)]
                            ELSE users
                /\ last' = [ Resp(act, IF r.success THEN "ok" ELSE "failed to execute action", u)
                             EXCEPT !.read = r.read, !.sent = r.sent, !.at = now ]
    /\ UNCHANGED <<instances, envToken, sched, creator, now, pollWake, dsPc, dsWake, dsStart, fired>>

\* POST /api/portal/action
PortalAction(u, act, net) ==
    /\ CurrentUser(u)
    /\ LET row == users[u]
           r == ActionCall(act, vstatus, net, row)
       IN  IF act \notin {"start", "stop"}
           THEN /\ UNCHANGED <<users, vstatus>>
                /\ last' = Resp(act, "invalid action", u)
           ELSE IF ~Truthy(row.instance_id) \/ ~TruthyS(row.instance_uuid)
           THEN /\ UNCHANGED <<users, vstatus>>
                /\ last' = Resp(act, "no instance configured", u)
           ELSE IF UserClientRaises(row)
           THEN /\ UNCHANGED <<users, vstatus>>
                /\ last' = Resp(act, "failed to execute action", u)
           ELSE /\ vstatus' = r.vs
                /\ users' = IF r.success
                            THEN [users EXCEPT ![u].state = ActionState(act)]
                            ELSE users
                /\ last' = [ Resp(act, IF r.success THEN "ok" ELSE "failed to execute action", u)
                             EXCEPT !.read = r.read, !.sent = r.sent, !.at = now ]
    /\ UNCHANGED <<instances, envToken, sched, creator, now, pollWake, dsPc, dsWake, dsStart, fired>>

\* heartbeat that also marks the user active
HeartbeatActivates(u) ==
    /\ CurrentUser(u)
    /\ users' = [users EXCEPT ![u].last_heartbeat = now, ![u].state = "active"]
    /\ last' = Resp("heartbeat", "ok", u)
    /\ UNCHANGED <<instances, vstatus, envToken, sched, creator, now, pollWake, dsPc, dsWake, dsStart, fired>>

\* POST /api/portal/heartbeat
Heartbeat(u) ==
    /\ CurrentUser(u)
    /\ users' = [users EXCEPT ![u].last_heartbeat = now]
    /\ last' = Resp("heartbeat", "ok", u)
    /\ UNCHANGED <<instances, vstatus, envToken, sched, creator, now, pollWake, dsPc, dsWake, dsStart, fired>>

\* query_instance with `else` in place of `elif status_code == 5`
QueriedStateElseInactive(state, status) ==
    IF status = STATUS_RUNNING THEN "active" ELSE "inactive"

\* query_instance: the state the vendor's status code maps to
QueriedState(state, status) ==
    IF status = STATUS_RUNNING THEN "active"
    ELSE IF status = STATUS_STOPPED THEN "inactive"
    ELSE state

\* GET /api/portal/query-instance
QueryInstance(u, listOk) ==
    /\ CurrentUser(u)
    /\ LET row == users[u]
           inst == GetInstanceById(vstatus, listOk, row.instance_id)
       IN  IF ~Truthy(row.instance_id)
           THEN /\ UNCHANGED users
                /\ last' = Resp("query", "no instance configured", u)
           ELSE IF UserClientRaises(row)
           THEN /\ UNCHANGED users
                /\ last' = Resp("query", "failed to query instance", u)
           ELSE IF inst = NoInst
           THEN /\ UNCHANGED users
                /\ last' = Resp("query", "instance not found", u)
           ELSE /\ users' = [users EXCEPT ![u].state = QueriedState(@, inst.status)]
                /\ last' = [Resp("query", "ok", u) EXCEPT !.read = inst.status]
    /\ UNCHANGED <<instances, vstatus, envToken, sched, creator, now, pollWake, dsPc, dsWake, dsStart, fired>>

-----------------------------------------------------------------------------
(* The background loops *)

\* one user of a loop pass: build the client, stop the instance
StopFor(row, vs, net) ==
    IF UserClientRaises(row)
    THEN [success |-> FALSE, outcome |-> "raised", sent |-> 0, vs |-> vs]
    ELSE LET r == StopInstance(vs, net, row.instance_id, row.instance_uuid)
         IN  [ success |-> r.success,
               outcome |-> IF r.success THEN "stopped" ELSE "failed",
               sent |-> r.sent, vs |-> r.vs ]

\* the fates of one user's turn in a loop pass: the two HTTP calls and the
\* db.commit() of lines 174 and 240
Fates(commits) == [list : BOOLEAN, cmd : BOOLEAN, commit : commits]

RECURSIVE StopAllForgetsFailed(_, _, _, _, _)
\* the `for user in ...` with a failed stop clearing the user's heartbeat
StopAllForgetsFailed(ids, us, vs, net, log) ==
    IF ids = <<>> THEN [users |-> us, vs |-> vs, log |-> log]
    ELSE LET u == Head(ids)
             r == StopFor(us[u], vs, net[u])
         IN  IF r.success /\ ~net[u].commit
             THEN [ users |-> us, vs |-> r.vs,
                    log |-> (u :> [outcome |-> "commit failed", sent |-> r.sent]) @@ log ]
             ELSE StopAllForgetsFailed(Tail(ids),
                          IF r.success
                          THEN [us EXCEPT ![u].state = "inactive", ![u].last_heartbeat = Null]
                          ELSE [us EXCEPT ![u].last_heartbeat = Null],
                          r.vs, net,
                          (u :> [outcome |-> r.outcome, sent |-> r.sent]) @@ log)

RECURSIVE StopAll(_, _, _, _, _)
\* the `for user in ...` of both loops: each selected user in turn; a user
\* whose stop succeeds is committed inactive with no heartbeat.  When that
\* commit raises, the session is left without a rollback and with its rows
\* expired: the `except` of lines 179-180 (247-249) reads user.username to
\* log the error, the reload raises on the failed session, and the exception
\* leaves the `for` to the `except` of line 182 (253): the pass ends there.
StopAll(ids, us, vs, net, log) ==
    IF ids = <<>> THEN [users |-> us, vs |-> vs, log |-> log]
    ELSE LET u == Head(ids)
             r == StopFor(us[u], vs, net[u])
         IN  IF r.success /\ ~net[u].commit
             THEN [ users |-> us, vs |-> r.vs,
                    log |-> (u :> [outcome |-> "commit failed", sent |-> r.sent]) @@ log ]
             ELSE StopAll(Tail(ids),
                          IF r.success
                          THEN [us EXCEPT ![u].state = "inactive", ![u].last_heartbeat = Null]
                          ELSE us,
                          r.vs, net,
                          (u :> [outcome |-> r.outcome, sent |-> r.sent]) @@ log)

\* the query with a threshold one tick too far back
InactiveUsersLate(us, t) ==
    { u \in DOMAIN us :
        /\ us[u].state = "active"
        /\ us[u].instance_id # Null
        /\ us[u].last_heartbeat # Null
        /\ us[u].last_heartbeat < t - INACTIVITY_TIMEOUT - 1 }

\* the query without `last_heartbeat.isnot(None)`, a missing heartbeat
\* counting as the oldest
InactiveUsersNoHeartbeatToo(us, t) ==
    { u \in DOMAIN us :
        /\ us[u].state = "active"
        /\ us[u].instance_id # Null
        /\ (us[u].last_heartbeat = Null \/ us[u].last_heartbeat < t - INACTIVITY_TIMEOUT) }

\* check_inactive_users: the users the query of lines 145-150 selects
InactiveUsers(us, t) ==
    { u \in DOMAIN us :
        /\ us[u].state = "active"
        /\ us[u].instance_id # Null
        /\ us[u].last_heartbeat # Null
        /\ us[u].last_heartbeat < t - INACTIVITY_TIMEOUT }

\* check_inactive_users: one pass of the loop, when its sleep has ended;
\* commits: the fates a commit of the pass may have
CheckInactiveUsers(commits) ==
    /\ now >= pollWake
    /\ \E net \in [InactiveUsers(users, now) -> Fates(commits)] :
         LET r == StopAll(Ascending(InactiveUsers(users, now)), users, vstatus, net, <<>>)
         IN  /\ users' = r.users
             /\ vstatus' = r.vs
             /\ last' = [Resp("check_inactive_users", "ok", Null) EXCEPT !.log = r.log]
    /\ pollWake' = now + INACTIVITY_CHECK_INTERVAL
    /\ UNCHANGED <<instances, envToken, sched, creator, now, dsPc, dsWake, dsStart, fired>>

\* the trigger without lines 197-199: never moved to tomorrow
NextShutdownToday(t) == (t \div DayLen) * DayLen + DAILY_SHUTDOWN_HOUR

\* daily_shutdown_task: the next occurrence of the shutdown hour after t
NextShutdown(t) ==
    LET today == (t \div DayLen) * DayLen + DAILY_SHUTDOWN_HOUR
    IN  IF t >= today THEN today + DayLen ELSE today

\* the query with the state filter of the inactivity loop
ActiveUsersWithInstances(us) ==
    { u \in DOMAIN us : us[u].instance_id # Null /\ us[u].state = "active" }

\* daily_shutdown_task: the users the query of lines 212-214 selects
UsersWithInstances(us) == { u \in DOMAIN us : us[u].instance_id # Null }

\* daily_shutdown_task: the long sleep ends, the pass runs, the buffer sleep
\* starts
DailyShutdown(commits) ==
    /\ dsPc = "sleep"
    /\ now >= dsWake - MaxSkew
    /\ \E net \in [UsersWithInstances(users) -> Fates(commits)] :
         LET r == StopAll(Ascending(UsersWithInstances(users)), users, vstatus, net, <<>>)
         IN  /\ users' = r.users
             /\ vstatus' = r.vs
             /\ last' = [Resp("daily_shutdown", "ok", Null) EXCEPT !.log = r.log]
    /\ fired' = Append(fired, now \div DayLen)
    /\ dsPc' = "buffer"
    /\ dsWake' = now + SHUTDOWN_BUFFER
    /\ UNCHANGED <<instances, envToken, sched, creator, now, pollWake, dsStart>>

\* daily_shutdown_task: the buffer sleep ends, the next trigger is computed
\* and the long sleep starts
DailyResume ==
    /\ dsPc = "buffer"
    /\ now >= dsWake
    /\ dsPc' = "sleep"
    /\ dsWake' = NextShutdown(now)
    /\ UNCHANGED <<users, instances, vstatus, envToken, sched, creator, now, pollWake, dsStart, fired, last>>

-----------------------------------------------------------------------------
(* The environment *)

\* the clock advances; a sleep that has reached its deadline ends first
Tick(maxTime) ==
    /\ now < maxTime
    /\ now < pollWake
    /\ now < dsWake
    /\ now' = now + 1
    /\ UNCHANGED <<users, instances, vstatus, envToken, sched, creator, pollWake, dsPc, dsWake, dsStart,
                   fired, last>>

\* the vendor's status of an instance changes on the vendor's side
VendorDrift(uuid, status) ==
    /\ vstatus[uuid] # status
    /\ vstatus' = [vstatus EXCEPT ![uuid] = status]
    /\ UNCHANGED <<users, instances, envToken, sched, creator, now, pollWake, dsPc, dsWake, dsStart,
                   fired, last>>

-----------------------------------------------------------------------------
(* Startup: startup_event on an empty database, both loops created *)

InitAt(t, tokens) ==
    /\ users = SeededUsers
    /\ instances = <<>>
    /\ vstatus = [v \in VendorUuids |-> STATUS_STOPPED]
    /\ envToken \in tokens
    /\ now = t
    /\ pollWake = t + INACTIVITY_CHECK_INTERVAL
    /\ dsPc = "sleep"
    /\ dsWake = NextShutdown(t)
    /\ dsStart = t
    /\ fired = <<>>
    /\ sched = SchedIdle
    /\ creator = [u \in DOMAIN SeededUsers |-> Null]
    /\ last = Resp("startup", "ok", Null)

Init == InitAt(0, BOOLEAN)

(* The requests of the model *)

UserIds == 1..MaxUsers
InstanceIds == 1..MaxInstances
Statuses == {STATUS_RUNNING, STATUS_STOPPED, STATUS_OTHER}
NoPatch ==
    [ username |-> NullS, email |-> NullS, phone |-> NullS, state |-> NullS,
      instance_id |-> Null,
      instance_uuid |-> NullS, bearer_token |-> NullS ]

-----------------------------------------------------------------------------
(* Spec: account and instance management *)

CreateRequests ==
    [ username : {"bob", "eve"}, email : {NullS}, phone : {NullS},
      is_admin : {FALSE}, bearer_token : {NullS},
      gpu_instance_id : {Null, 0} \cup InstanceIds ]
    \cup [ username : {"eve"}, email : {NullS}, phone : {NullS},
           is_admin : {TRUE}, bearer_token : {NullS},
           gpu_instance_id : {Null, 1} ]
UserPatches == { [NoPatch EXCEPT !.instance_id = 42, !.instance_uuid = "ub"] }
InstancePatches ==
    { [instance_id |-> 42, instance_uuid |-> NullS],
      [instance_id |-> Null, instance_uuid |-> "ub"] }
\* the uuids asked for: two the vendor lists, one it lists without an id, one
\* it does not list; and a list call that fails
InstanceRequests ==
    [ uuid : {"ua", "ub", "uz", "ux"}, listOk : {TRUE} ]
    \cup { [uuid |-> "ua", listOk |-> FALSE] }

Next ==
    \/ \E c \in UserIds, req \in CreateRequests : CreateUser(c, req)
    \/ \E c \in UserIds, uid \in UserIds, patch \in UserPatches : UpdateUser(c, uid, patch)
    \/ \E c \in UserIds, uid \in UserIds : DeleteUser(c, uid)
    \/ \E c \in UserIds, r \in InstanceRequests : CreateInstance(c, r.uuid, r.listOk)
    \/ \E c \in UserIds, id \in InstanceIds, patch \in InstancePatches :
           UpdateInstance(c, id, patch)
    \/ \E c \in UserIds, id \in InstanceIds : DeleteInstance(c, id)

Spec == Init /\ [][Next]_vars

-----------------------------------------------------------------------------
(* SpecAction: a user with an instance and the start/stop action *)

ActionRequests ==
    [ username : {"bob"}, email : {NullS}, phone : {NullS},
      is_admin : {FALSE}, bearer_token : {NullS, " ", "tok"},
      gpu_instance_id : {1} ]
Actions == {"start", "stop", "restart"}
\* a patch that gives a user an instance_id and no instance_uuid
ActionPatches == { [NoPatch EXCEPT !.instance_id = 42] }

NextAction ==
    \/ \E c \in UserIds : CreateInstance(c, "ua", TRUE)
    \/ \E c \in UserIds, req \in ActionRequests : CreateUser(c, req)
    \/ \E c \in UserIds, uid \in UserIds, patch \in ActionPatches : UpdateUser(c, uid, patch)
    \/ \E u \in UserIds, act \in Actions, net \in Net : PortalAction(u, act, net)
    \/ \E u \in UserIds, listOk \in BOOLEAN : QueryInstance(u, listOk)
    \/ \E u \in UserIds : Heartbeat(u)
    \/ \E uuid \in VendorUuids, status \in Statuses : VendorDrift(uuid, status)

SpecAction == Init /\ [][NextAction]_vars

-----------------------------------------------------------------------------
(* SpecLoops: users with instances, heartbeats, the clock and a pass of    *)
(* each loop, in a process that has the default token                      *)

LoopRequests ==
    [ username : {"bob"}, email : {NullS}, phone : {NullS},
      is_admin : {FALSE}, bearer_token : {NullS, " "},
      gpu_instance_id : {1} ]
LoopPatches ==
    { [NoPatch EXCEPT !.instance_id = 42, !.instance_uuid = "ub"],
      [NoPatch EXCEPT !.state = "active"] }

InitLoops == InitAt(0, {TRUE})

NextLoops ==
    \/ \E c \in UserIds : CreateInstance(c, "ua", TRUE)
    \/ \E c \in UserIds, req \in LoopRequests : CreateUser(c, req)
    \/ \E c \in UserIds, uid \in UserIds, patch \in LoopPatches : UpdateUser(c, uid, patch)
    \/ \E u \in UserIds : Heartbeat(u)
    \/ CheckInactiveUsers({TRUE})
    \/ DailyShutdown({TRUE})
    \/ Tick(MaxTime)
    \/ \E status \in Statuses : VendorDrift("ua", status)

SpecLoops == InitLoops /\ [][NextLoops]_vars

-----------------------------------------------------------------------------
(* SpecDaily: the timing of daily_shutdown_task over several days, the     *)
(* process started at any tick of the first day                            *)

InitDaily == \E t \in 0..(DayLen - 1) : InitAt(t, BOOLEAN)

NextDaily ==
    \/ \E u \in UserIds : Heartbeat(u)
    \/ CheckInactiveUsers({TRUE})
    \/ DailyShutdown({TRUE})
    \/ DailyResume
    \/ Tick(MaxDays * DayLen)

SpecDaily == InitDaily /\ [][NextDaily]_vars

-----------------------------------------------------------------------------
(* SpecOwner: the users table under the admins' requests, with admins who  *)
(* rename themselves and patches of the state column                       *)

OwnerRequests ==
    [ username : {"bob"}, email : {NullS}, phone : {NullS},
      is_admin : {FALSE}, bearer_token : {NullS},
      gpu_instance_id : {Null} ]
    \cup [ username : {"eve"}, email : {NullS}, phone : {NullS},
           is_admin : {TRUE}, bearer_token : {NullS},
           gpu_instance_id : {Null} ]
OwnerPatches ==
    { [NoPatch EXCEPT !.username = n] : n \in {"admin", "root"} }
    \cup { [NoPatch EXCEPT !.state = st] : st \in {"active", "paused"} }

NextOwner ==
    \/ \E c \in UserIds, req \in OwnerRequests : CreateUser(c, req)
    \/ \E c \in UserIds, uid \in UserIds, patch \in OwnerPatches : UpdateUser(c, uid, patch)
    \/ \E c \in UserIds, uid \in UserIds : DeleteUser(c, uid)
    \/ \E c \in UserIds : GetUsers(c)
    \/ \E c \in UserIds, uid \in UserIds : GetUser(c, uid)

SpecOwner == InitAt(0, {TRUE}) /\ [][NextOwner]_vars

-----------------------------------------------------------------------------
(* SpecFaults: the two loops over two users with instances, with commits  *)
(* of a pass that may raise (a locked database)                            *)

FaultRequests ==
    [ username : {"bob"}, email : {NullS}, phone : {NullS},
      is_admin : {FALSE}, bearer_token : {NullS},
      gpu_instance_id : {1} ]
FaultPatches ==
    { [NoPatch EXCEPT !.instance_id = 42, !.instance_uuid = "ub", !.state = "active"] }

NextFaults ==
    \/ \E c \in UserIds : CreateInstance(c, "ua", TRUE)
    \/ \E c \in UserIds, req \in FaultRequests : CreateUser(c, req)
    \/ \E c \in UserIds, uid \in UserIds, patch \in FaultPatches : UpdateUser(c, uid, patch)
    \/ \E u \in UserIds : Heartbeat(u)
    \/ CheckInactiveUsers(BOOLEAN)
    \/ DailyShutdown(BOOLEAN)
    \/ Tick(MaxTime)

SpecFaults == InitLoops /\ [][NextFaults]_vars

-----------------------------------------------------------------------------
(* SpecLifecycle: one user who starts and stops the instance and sends     *)
(* heartbeats while the clock runs and the inactivity loop polls           *)

LifecycleRequests ==
    [ username : {"bob"}, email : {NullS}, phone : {NullS},
      is_admin : {FALSE}, bearer_token : {NullS},
      gpu_instance_id : {1} ]

NextLifecycle ==
    \/ \E c \in UserIds : CreateInstance(c, "ua", TRUE)
    \/ \E c \in UserIds, req \in LifecycleRequests : CreateUser(c, req)
    \/ \E u \in UserIds, act \in {"start", "stop"}, net \in Net : PortalAction(u, act, net)
    \/ \E u \in UserIds : Heartbeat(u)
    \/ CheckInactiveUsers({TRUE})
    \/ Tick(MaxTime)

SpecLifecycle == InitLoops /\ [][NextLifecycle]_vars

-----------------------------------------------------------------------------
(* SpecFrame: every handler that touches a user or an instance, and both   *)
(* loops, over one instance and the users who hold it                      *)

FrameRequests ==
    [ username : {"bob"}, email : {NullS}, phone : {NullS},
      is_admin : {FALSE}, bearer_token : {NullS},
      gpu_instance_id : {1} ]
FramePatches == { [NoPatch EXCEPT !.instance_id = 42, !.instance_uuid = "ub"] }
FrameInstancePatches == { [instance_id |-> 42, instance_uuid |-> NullS] }
\* vendor calls that all get through
FrameNet == [list : {TRUE}, cmd : {TRUE}]

NextFrame ==
    \/ \E c \in UserIds : CreateInstance(c, "ua", TRUE)
    \/ \E c \in UserIds, req \in FrameRequests : CreateUser(c, req)
    \/ \E c \in UserIds : \E uid \in UserIds \ {c}, patch \in FramePatches :
           UpdateUser(c, uid, patch)
    \/ \E c \in UserIds, uid \in UserIds : DeleteUser(c, uid)
    \/ \E c \in UserIds, id \in InstanceIds, patch \in FrameInstancePatches :
           UpdateInstance(c, id, patch)
    \/ \E u \in UserIds, act \in {"start", "stop"}, net \in FrameNet : PortalAction(u, act, net)
    \/ \E u \in UserIds : Heartbeat(u)
    \/ \E u \in UserIds : QueryInstance(u, TRUE)
    \/ CheckInactiveUsers({TRUE})
    \/ DailyShutdown({TRUE})
    \/ Tick(MaxTime)

SpecFrame == InitLoops /\ [][NextFrame]_vars

-----------------------------------------------------------------------------
(* SpecUnique: the username, email and phone of the users under the        *)
(* requests of two admins, with emails that are absent, empty and given    *)

UniqueRequests ==
    [ username : {"bob"}, email : {NullS, "", "e@x"}, phone : {NullS, "139"},
      is_admin : {FALSE}, bearer_token : {NullS}, gpu_instance_id : {Null} ]
    \cup [ username : {"eve"}, email : {NullS, "", "e@x"}, phone : {NullS, "139"},
           is_admin : {TRUE}, bearer_token : {NullS}, gpu_instance_id : {Null} ]
UniquePatches ==
    { [NoPatch EXCEPT !.username = "bob"] }
    \cup { [NoPatch EXCEPT !.email = e] : e \in {"", "e@x", "admin@example.com"} }
    \cup { [NoPatch EXCEPT !.phone = "139"] }

NextUnique ==
    \/ \E c \in UserIds, req \in UniqueRequests : CreateUser(c, req)
    \/ \E c \in UserIds, uid \in UserIds, patch \in UniquePatches : UpdateUser(c, uid, patch)

SpecUnique == InitAt(0, {TRUE}) /\ [][NextUnique]_vars

-----------------------------------------------------------------------------
(* SpecRetry: the inactivity loop polling for ever.  The clock has no end: *)
(* times are kept relative to a window of MaxTime ticks, and once the      *)
(* clock is at the end of the window a tick moves every recorded time one  *)
(* tick back instead.  A time that would leave the window stays at 0: at   *)
(* the end of the window such a time is past every threshold of the loop   *)
(* either way.  daily_shutdown_task is left out of this specification.     *)

\* a recorded time, one tick further in the past
Earlier(t) == IF t = Null THEN Null ELSE IF t > 0 THEN t - 1 ELSE 0

\* the sleep of check_inactive_users goes on for one more tick
PollTick ==
    /\ now < pollWake
    /\ IF now < MaxTime
       THEN /\ now' = now + 1
            /\ UNCHANGED <<users, pollWake, last>>
       ELSE /\ now' = now
            /\ pollWake' = pollWake - 1
            /\ users' = [ u \in DOMAIN users |->
                            [users[u] EXCEPT !.last_heartbeat = Earlier(@)] ]
            /\ last' = [last EXCEPT !.at = Earlier(@)]
    /\ UNCHANGED <<instances, vstatus, envToken, sched, creator, dsPc, dsWake, dsStart, fired>>

RetryRequests ==
    [ username : {"bob"}, email : {NullS}, phone : {NullS},
      is_admin : {FALSE}, bearer_token : {NullS},
      gpu_instance_id : {1} ]

NextRetry ==
    \/ \E c \in UserIds : CreateInstance(c, "ua", TRUE)
    \/ \E c \in UserIds, req \in RetryRequests : CreateUser(c, req)
    \/ \E u \in UserIds, act \in {"start", "stop"}, net \in Net : PortalAction(u, act, net)
    \/ \E u \in UserIds : Heartbeat(u)
    \/ CheckInactiveUsers({TRUE})
    \/ PollTick

\* asyncio runs the loop's task whenever its sleep has ended (line 120), and
\* time passes
SpecRetry ==
    /\ InitLoops
    /\ [][NextRetry]_vars
    /\ WF_vars(PollTick)
    /\ WF_vars(CheckInactiveUsers({TRUE}))

-----------------------------------------------------------------------------
(* SpecSched: the event loop.  startup_event creates both background tasks *)
(* on the loop that runs the handlers (lines 268, 271); every handler is   *)
(* an `async def`, and GPUFreeClient calls `requests` synchronously.  A    *)
(* coroutine that runs keeps the loop until it awaits.  Here a pass of a   *)
(* background task is taken a statement at a time: the query, then for     *)
(* each selected user the stop and the commit, then the sleep.             *)

Loops == {"poll", "daily"}

\* a position of a background task with an `await` in the source: the
\* three asyncio.sleep of lines 120, 205 and 259; "stop" is stop_instance
\* (166-169, 232-235), "commit" is `if success:` with db.commit()
YieldsAtStop(pc) == pc \in {"sleep", "stop"}

\* the positions of a background task at which it awaits
Yields(pc) == pc = "sleep"

\* the event loop after task l has run up to position pc
Reached(l, pc, sel, res, log) ==
    [ sched EXCEPT ![l] = [pc |-> pc, sel |-> sel, res |-> res, log |-> log],
                   !.holder = IF Yields(pc) THEN "none" ELSE l ]

\* task l may run: the loop is free, or l has it
CanRun(l) == sched.holder \in {"none", l}

\* a handler may run: the loop is free
LoopFree == sched.holder = "none"

\* check_inactive_users: the sleep has ended; the query of lines 145-150
PollSelect ==
    /\ CanRun("poll")
    /\ sched.poll.pc = "sleep"
    /\ now >= pollWake
    /\ sched' = Reached("poll", "stop", Ascending(InactiveUsers(users, now)), FALSE, <<>>)
    /\ UNCHANGED <<users, instances, vstatus, envToken, now, pollWake, dsPc, dsWake,
                   dsStart, fired, creator, last>>

\* daily_shutdown_task: the long sleep has ended; the query of lines 212-214
DailySelect ==
    /\ CanRun("daily")
    /\ sched.daily.pc = "sleep"
    /\ dsPc = "sleep"
    /\ now >= dsWake - MaxSkew
    /\ sched' = Reached("daily", "stop", Ascending(UsersWithInstances(users)), FALSE, <<>>)
    /\ UNCHANGED <<users, instances, vstatus, envToken, now, pollWake, dsPc, dsWake,
                   dsStart, fired, creator, last>>

\* either loop: the client is built and stop_instance called for the next
\* selected user
LoopStop(l, net) ==
    /\ CanRun(l)
    /\ sched[l].pc = "stop"
    /\ sched[l].sel # <<>>
    /\ LET u == Head(sched[l].sel)
           r == StopFor(users[u], vstatus, net)
       IN  /\ vstatus' = r.vs
           /\ sched' = Reached(l, "commit", sched[l].sel, r.success,
                               (u :> [outcome |-> r.outcome, sent |-> r.sent]) @@ sched[l].log)
    /\ UNCHANGED <<users, instances, envToken, now, pollWake, dsPc, dsWake,
                   dsStart, fired, creator, last>>

\* either loop: `if success:` - the row is written and committed; then the
\* next user
LoopCommit(l) ==
    /\ CanRun(l)
    /\ sched[l].pc = "commit"
    /\ LET u == Head(sched[l].sel)
       IN  /\ users' = IF sched[l].res
                       THEN [users EXCEPT ![u].state = "inactive", ![u].last_heartbeat = Null]
                       ELSE users
           /\ sched' = Reached(l, "stop", Tail(sched[l].sel), FALSE, sched[l].log)
    /\ UNCHANGED <<instances, vstatus, envToken, now, pollWake, dsPc, dsWake,
                   dsStart, fired, creator, last>>

\* check_inactive_users: the `for` is over; back to the sleep of line 120
PollEnd ==
    /\ CanRun("poll")
    /\ sched.poll.pc = "stop"
    /\ sched.poll.sel = <<>>
    /\ sched' = Reached("poll", "sleep", <<>>, FALSE, <<>>)
    /\ pollWake' = now + INACTIVITY_CHECK_INTERVAL
    /\ last' = [Resp("check_inactive_users", "ok", Null) EXCEPT !.log = sched.poll.log]
    /\ UNCHANGED <<users, instances, vstatus, envToken, now, dsPc, dsWake,
                   dsStart, fired, creator>>

\* daily_shutdown_task: the `for` is over; the sleep of line 259
DailyEnd ==
    /\ CanRun("daily")
    /\ sched.daily.pc = "stop"
    /\ sched.daily.sel = <<>>
    /\ sched' = Reached("daily", "sleep", <<>>, FALSE, <<>>)
    /\ fired' = Append(fired, now \div DayLen)
    /\ dsPc' = "buffer"
    /\ dsWake' = now + SHUTDOWN_BUFFER
    /\ last' = [Resp("daily_shutdown", "ok", Null) EXCEPT !.log = sched.daily.log]
    /\ UNCHANGED <<users, instances, vstatus, envToken, now, pollWake, dsStart, creator>>

\* the clock: it advances while a coroutine holds the loop (a vendor call
\* takes time); with the loop free, a sleep that has reached its deadline
\* ends first.  It runs long enough for the sleep of line 259 to end.
SchedTick ==
    /\ now < MaxTime + SHUTDOWN_BUFFER
    /\ LoopFree => (now < pollWake /\ now < dsWake)
    /\ now' = now + 1
    /\ UNCHANGED <<users, instances, vstatus, envToken, sched, creator, pollWake, dsPc,
                   dsWake, dsStart, fired, last>>

SchedRequests ==
    [ username : {"bob"}, email : {NullS}, phone : {NullS},
      is_admin : {FALSE}, bearer_token : {NullS},
      gpu_instance_id : {1} ]

\* a step of a request handler of this specification
HandlerStep ==
    \/ \E c \in UserIds : CreateInstance(c, "ua", TRUE)
    \/ \E c \in UserIds, req \in SchedRequests : CreateUser(c, req)
    \/ \E u \in UserIds, act \in {"start", "stop"}, net \in Net : PortalAction(u, act, net)
    \/ \E u \in UserIds : Heartbeat(u)

NextSched ==
    \/ LoopFree /\ \E c \in UserIds : CreateInstance(c, "ua", TRUE)
    \/ LoopFree /\ \E c \in UserIds, req \in SchedRequests : CreateUser(c, req)
    \/ LoopFree /\ \E u \in UserIds, act \in {"start", "stop"}, net \in Net :
                      PortalAction(u, act, net)
    \/ LoopFree /\ \E u \in UserIds : Heartbeat(u)
    \/ PollSelect
    \/ DailySelect
    \/ \E l \in Loops, net \in Net : LoopStop(l, net)
    \/ \E l \in Loops : LoopCommit(l)
    \/ PollEnd
    \/ DailyEnd
    \/ LoopFree /\ DailyResume
    \/ SchedTick

SpecSched == InitLoops /\ [][NextSched]_vars

-----------------------------------------------------------------------------
(* Properties *)

\* a step of check_inactive_users: only a pass of the loop restarts its sleep
PollStep == pollWake' # pollWake
\* a step of daily_shutdown_task in which the pass runs
ShutdownStep == dsPc = "sleep" /\ dsPc' = "buffer"

Stale(row, t) ==
    /\ row.state = "active"
    /\ row.instance_id # Null
    /\ row.last_heartbeat # Null
    /\ row.last_heartbeat < t - INACTIVITY_TIMEOUT

\* C1: a pass of the inactivity loop is never more than one poll interval
\* away, and in every pass each user who is active, has an instance and a
\* heartbeat older than now - timeout gets a stop attempt in that pass (an
\* entry in the pass's log: stopped, failed, or raised while the client was
\* built, the last only when no usable token is configured); a user whose
\* stop succeeded ends the pass inactive with no heartbeat.
C1_StaleUsersAreStopped ==
    /\ [](now <= pollWake /\ pollWake <= now + INACTIVITY_CHECK_INTERVAL)
    /\ [][ PollStep =>
             /\ last'.op = "check_inactive_users"
             /\ \A u \in DOMAIN users :
                  Stale(users[u], now) =>
                    /\ u \in DOMAIN last'.log
                    /\ ~UserClientRaises(users[u]) => last'.log[u].outcome # "raised"
                    /\ last'.log[u].outcome = "stopped" =>
                         /\ users'[u].state = "inactive"
                         /\ users'[u].last_heartbeat = Null ]_vars

\* a pass has just stopped a stale user
C1_Witness ==
    /\ last.op = "check_inactive_users"
    /\ \E u \in DOMAIN last.log :
         /\ last.log[u].outcome = "stopped"
         /\ last.log[u].sent = 1
         /\ users[u].state = "inactive"
         /\ users[u].last_heartbeat = Null

C3_OncePerDay ==
    /\ \A i, j \in 1..Len(fired) : i # j => fired[i] # fired[j]
    /\ \A d \in 0..MaxDays :
         ( /\ dsStart < d * DayLen + DAILY_SHUTDOWN_HOUR
           /\ d * DayLen + DAILY_SHUTDOWN_HOUR < now )
         => \E i \in 1..Len(fired) : fired[i] = d

\* passes have run on two days and the task sleeps towards the third
C3_Witness == Len(fired) >= 2 /\ dsPc = "sleep"

\* C4: a daily shutdown pass attempts a stop for every user whose
\* instance_id is not null, whatever the state, a user whose stop succeeded
\* ends the pass inactive with no heartbeat, and a user with a null
\* instance_id is neither attempted nor changed.
C4_ShutdownStopsEveryInstance ==
    [][ ShutdownStep =>
          /\ last'.op = "daily_shutdown"
          /\ \A u \in DOMAIN users :
               IF users[u].instance_id # Null
               THEN /\ u \in DOMAIN last'.log
                    /\ last'.log[u].outcome = "stopped" =>
                         /\ users'[u].state = "inactive"
                         /\ users'[u].last_heartbeat = Null
               ELSE /\ u \notin DOMAIN last'.log
                    /\ users'[u] = users[u] ]_vars

\* a pass has stopped one user and failed on another, who was inactive
\* already (a failed stop leaves the row as it was)
C4_Witness ==
    /\ last.op = "daily_shutdown"
    /\ \E u, v \in DOMAIN last.log :
         /\ last.log[u].outcome = "stopped"
         /\ last.log[v].outcome = "failed"
         /\ users[v].state = "inactive"

\* C5: a create-user that succeeds for a non-admin naming an unassigned
\* GpuInstance G adds the user, sets G.assigned_user_id to the new id and
\* copies G's instance_id and instance_uuid to the user, in one step; and a
\* create-user step adds a user holding an instance exactly when it changes
\* an assignment.
C5_CreateUserAssignsAtomically ==
    [][ last'.op = "create_user" =>
          /\ \A c \in UserIds, req \in CreateRequests :
               ( /\ last'.detail = "ok"
                 /\ users'[last'.id].username = req.username
                 /\ ~req.is_admin
                 /\ req.gpu_instance_id \in DOMAIN instances
                 /\ instances[req.gpu_instance_id].assigned_user_id = Null
                 /\ CreateUser(c, req) )
               => LET g == req.gpu_instance_id
                      uid == last'.id
                  IN  /\ uid \in DOMAIN users' \ DOMAIN users
                      /\ instances'[g].assigned_user_id = uid
                      /\ users'[uid].instance_id = instances'[g].instance_id
                      /\ users'[uid].instance_uuid = instances'[g].instance_uuid
          /\ (\E uid \in DOMAIN users' \ DOMAIN users : users'[uid].instance_id # Null)
             <=> (\E g \in DOMAIN instances :
                     instances'[g].assigned_user_id # instances[g].assigned_user_id)
      ]_vars

\* the user just created holds the instance that is assigned to it
C5_Witness ==
    /\ last.op = "create_user"
    /\ last.detail = "ok"
    /\ \E g \in DOMAIN instances :
         /\ instances[g].assigned_user_id = last.id
         /\ users[last.id].instance_id = instances[g].instance_id
         /\ users[last.id].instance_uuid = instances[g].instance_uuid

\* C6: a create-user for a non-admin whose gpu_instance_id names an assigned
\* GpuInstance, or no GpuInstance, is rejected and changes neither table.
C6_BadInstanceRejected ==
    [][ \A c \in UserIds, req \in CreateRequests :
          ( /\ CreateUser(c, req)
            /\ ~req.is_admin
            /\ req.gpu_instance_id # Null
            /\ \/ req.gpu_instance_id \notin DOMAIN instances
               \/ instances[req.gpu_instance_id].assigned_user_id # Null )
          => (last'.detail # "ok" /\ UNCHANGED db) ]_vars

\* C7: a delete-user that succeeds leaves no GpuInstance assigned to the
\* deleted user.
C7_DeleteUserReleases ==
    [][ \A c \in UserIds, uid \in UserIds :
          (DeleteUser(c, uid) /\ last'.detail = "ok")
          => \A g \in DOMAIN instances' : instances'[g].assigned_user_id # uid ]_vars

\* C8: a start whose status re-read shows the instance running reports
\* success, sends no command and leaves the user active; a stop whose
\* re-read shows it stopped reports success and sends no command.
C8_StartStopIdempotent ==
    /\ (last.op = "start" /\ last.read = STATUS_RUNNING) =>
         /\ last.detail = "ok"
         /\ last.sent = 0
         /\ users[last.id].state = "active"
    /\ (last.op = "stop" /\ last.read = STATUS_STOPPED) =>
         /\ last.detail = "ok"
         /\ last.sent = 0

\* a start on an instance the vendor reports as running has just succeeded
C8_Witness ==
    /\ last.op = "start"
    /\ last.read = STATUS_RUNNING
    /\ last.detail = "ok"
    /\ users[last.id].state = "active"

\* C9: a delete-instance on an assigned GpuInstance is rejected and changes
\* neither table; a delete-instance that succeeds was on an unassigned one.
C9_AssignedInstanceNotDeleted ==
    [][ last'.op = "delete_instance" =>
          \A c \in UserIds, id \in InstanceIds :
            /\ ( /\ id \in DOMAIN instances
                 /\ instances[id].assigned_user_id # Null
                 /\ DeleteInstance(c, id) )
               => (last'.detail = "instance is assigned" /\ UNCHANGED db)
            /\ (last'.detail = "ok" /\ DeleteInstance(c, id))
               => (instances[id].assigned_user_id = Null /\ id \notin DOMAIN instances')
      ]_vars

\* a delete-instance has just been rejected because the instance is assigned
C9_Witness ==
    /\ last.op = "delete_instance"
    /\ last.detail = "instance is assigned"
    /\ \E g \in DOMAIN instances : instances[g].assigned_user_id \in DOMAIN users

\* C10: every assigned GpuInstance names an existing user whose instance_id
\* and instance_uuid are the instance's.
C10_AssignmentConsistent ==
    \A g \in DOMAIN instances :
      instances[g].assigned_user_id # Null =>
        /\ instances[g].assigned_user_id \in DOMAIN users
        /\ users[instances[g].assigned_user_id].instance_id = instances[g].instance_id
        /\ users[instances[g].assigned_user_id].instance_uuid = instances[g].instance_uuid

\* C11: no two distinct users have the same non-null instance_id.  (That a
\* GpuInstance references at most one user is the shape of the row: one
\* assigned_user_id column.)
C11_InstanceHeldByOneUser ==
    \A u, v \in DOMAIN users :
      (u # v /\ users[u].instance_id # Null) => users[u].instance_id # users[v].instance_id

\* the users an account created that still exist
CreatedBy(a) == { u \in DOMAIN users : creator[u] = a }

\* C12: no account has created-and-still-existing users above
\* MAX_USERS_PER_ADMIN.
C12_CapPerAccount ==
    \A a \in DOMAIN users : Cardinality(CreatedBy(a)) <= MAX_USERS_PER_ADMIN

\* C13: a delete-user whose target is the caller, or whose target's owner is
\* not the caller's username, is rejected and changes neither the users
\* table nor any instance; a delete-user that succeeds removes a user whose
\* owner is the caller's username; and no other step removes a user.
C13_DeleteUserOwnerOnly ==
    [][ /\ last'.op = "delete_user" =>
             \A c \in UserIds, uid \in UserIds :
               DeleteUser(c, uid) =>
                 /\ ( /\ uid \in DOMAIN users
                      /\ (uid = c \/ users[uid].owner # users[c].username) )
                    => (last'.detail # "ok" /\ UNCHANGED db)
                 /\ last'.detail = "ok" =>
                      /\ uid # c
                      /\ users[uid].owner = users[c].username
                      /\ DOMAIN users' = DOMAIN users \ {uid}
        /\ (DOMAIN users \ DOMAIN users' # {}) =>
             (last'.op = "delete_user" /\ last'.detail = "ok")
      ]_vars

\* an admin has just been refused the deletion of a user of another admin
C13_Witness ==
    /\ last.op = "delete_user"
    /\ last.detail = "not your user"
    /\ \E a, b, u \in DOMAIN users :
         /\ a # b /\ users[a].is_admin /\ users[b].is_admin
         /\ users[u].owner = users[a].username
         /\ users[u].owner # users[b].username

\* C14: every user's state is active or inactive.
C14_StateIsActiveOrInactive ==
    \A u \in DOMAIN users : users[u].state \in {"active", "inactive"}

\* C15: every admin has a null owner and every non-admin a non-null one.
C15_AdminsHaveNoOwner ==
    \A u \in DOMAIN users :
      IF users[u].is_admin THEN users[u].owner = NullS ELSE users[u].owner # NullS

\* C16: an admin is granted a list entry, a view, an update or a delete of
\* another user only when the admin is the account that created that user.
C16_AccessOnlyByCreator ==
    [][ /\ last'.op = "get_users" =>
             \A c \in UserIds :
               GetUsers(c) => \A u \in last'.seen \ {c} : creator[u] = c
        /\ (last'.op \in {"get_user", "update_user", "delete_user"} /\ last'.detail = "ok") =>
             \A c \in UserIds : \A uid \in UserIds \ {c} :
               ( \/ GetUser(c, uid)
                 \/ DeleteUser(c, uid)
                 \/ \E patch \in OwnerPatches : UpdateUser(c, uid, patch) )
               => creator[uid] = c
      ]_vars

\* C17: a start that succeeds leaves the caller active and a stop that
\* succeeds leaves the caller inactive; an action on a configured instance
\* whose client raises or reports failure answers with the error, and an
\* action that answers with an error changes no user.
C17_ActionSetsStateOnSuccessOnly ==
    [][ last'.op \in {"start", "stop"} =>
          \A u \in UserIds, act \in {"start", "stop"}, net \in Net :
            PortalAction(u, act, net) =>
              /\ last'.detail = "ok" =>
                   users'[u].state = (IF act = "start" THEN "active" ELSE "inactive")
              /\ last'.detail # "ok" => users' = users
              /\ ( /\ Truthy(users[u].instance_id)
                   /\ TruthyS(users[u].instance_uuid)
                   /\ \/ UserClientRaises(users[u])
                      \/ ~ActionCall(act, vstatus, net, users[u]).success )
                 => last'.detail = "failed to execute action"
      ]_vars

\* the vendor has just refused a stop command and the caller, active with
\* a heartbeat, is as before
C17_Witness ==
    /\ last.op = "stop"
    /\ last.detail = "failed to execute action"
    /\ last.sent = 1
    /\ users[last.id].state = "active"
    /\ users[last.id].last_heartbeat # Null

\* C18: a status query that reads status 3 leaves the caller active, one
\* that reads 5 leaves the caller inactive, one that reads another status
\* leaves the state as it was; a query that finds no instance answers with
\* an error and changes no state; and no query changes a last_heartbeat or
\* another user.
C18_QueryReconcilesState ==
    [][ last'.op = "query" =>
          \A u \in UserIds, listOk \in BOOLEAN :
            QueryInstance(u, listOk) =>
              /\ last'.detail = "ok" =>
                   users'[u].state =
                     CASE last'.read = STATUS_RUNNING -> "active"
                       [] last'.read = STATUS_STOPPED -> "inactive"
                       [] OTHER -> users[u].state
              /\ last'.detail # "ok" => users' = users
              /\ ( /\ Truthy(users[u].instance_id)
                   /\ ~UserClientRaises(users[u])
                   /\ GetInstanceById(vstatus, listOk, users[u].instance_id) = NoInst )
                 => last'.detail = "instance not found"
              /\ users'[u].last_heartbeat = users[u].last_heartbeat
              /\ \A v \in DOMAIN users \ {u} : users'[v] = users[v]
      ]_vars

\* a query has just read a status that is neither 3 nor 5 and the caller is
\* still active
C18_Witness ==
    /\ last.op = "query"
    /\ last.detail = "ok"
    /\ last.read = STATUS_OTHER
    /\ users[last.id].state = "active"
    /\ users[last.id].last_heartbeat # Null

C20_EverySelectedUserProcessed ==
    [][ /\ PollStep =>
             /\ \A u \in InactiveUsers(users, now) : u \in DOMAIN last'.log
             /\ pollWake' = now + INACTIVITY_CHECK_INTERVAL
        /\ ShutdownStep =>
             /\ \A u \in UsersWithInstances(users) : u \in DOMAIN last'.log
             /\ dsWake' = now + SHUTDOWN_BUFFER
      ]_vars

\* C23: no two GpuInstance rows share an instance_id or an instance_uuid; a
\* create-instance whose uuid, or whose vendor id for that uuid, is held by
\* a row, and an update-instance whose instance_id or instance_uuid is held
\* by another row, is rejected and changes neither table.
C23_InstanceIdentityUnique ==
    /\ [](\A g, h \in DOMAIN instances :
            g # h => /\ instances[g].instance_id # instances[h].instance_id
                     /\ instances[g].instance_uuid # instances[h].instance_uuid)
    /\ [][ /\ last'.op = "create_instance" =>
                \A c \in UserIds, r \in InstanceRequests :
                  ( /\ CreateInstance(c, r.uuid, r.listOk)
                    /\ \E g \in DOMAIN instances :
                         \/ instances[g].instance_uuid = r.uuid
                         \/ \E v \in VendorList :
                              v.uuid = r.uuid /\ v.id = instances[g].instance_id )
                  => (last'.detail # "ok" /\ UNCHANGED db)
           /\ last'.op = "update_instance" =>
                \A c \in UserIds, id \in InstanceIds, patch \in InstancePatches :
                  ( /\ UpdateInstance(c, id, patch)
                    /\ \E g \in DOMAIN instances \ {id} :
                         \/ instances[g].instance_id = patch.instance_id
                         \/ instances[g].instance_uuid = patch.instance_uuid )
                  => (last'.detail # "ok" /\ UNCHANGED db)
          ]_vars

\* an update-instance has just been refused the uuid of another row
C23_Witness ==
    /\ last.op = "update_instance"
    /\ last.detail = "uuid exists"
    /\ Cardinality(DOMAIN instances) = 2

\* C25: a create-instance that succeeds adds one row whose instance_id is
\* the usable id the vendor lists for the uuid and whose assigned_user_id is
\* null, and changes no other row; a create-instance whose vendor lookup
\* fails, finds no instance with the uuid, or finds it without a usable id,
\* is rejected and leaves the table unchanged.
C25_CreateInstanceResolvesId ==
    [][ last'.op = "create_instance" =>
          \A c \in UserIds, r \in InstanceRequests :
            CreateInstance(c, r.uuid, r.listOk) =>
              /\ last'.detail = "ok" =>
                   /\ last'.id \notin DOMAIN instances
                   /\ DOMAIN instances' = DOMAIN instances \cup {last'.id}
                   /\ \A g \in DOMAIN instances : instances'[g] = instances[g]
                   /\ \E v \in VendorList :
                        /\ v.uuid = r.uuid
                        /\ Truthy(v.id)
                        /\ instances'[last'.id] =
                             [ instance_id |-> v.id, instance_uuid |-> r.uuid,
                               assigned_user_id |-> Null ]
              /\ ( \/ ~r.listOk
                   \/ ClientRaises(NullS)
                   \/ ~\E v \in VendorList : v.uuid = r.uuid /\ Truthy(v.id) )
                 => (last'.detail # "ok" /\ UNCHANGED db)
      ]_vars

\* a create-instance for a uuid the vendor lists without a usable id has
\* just been rejected
C25_Witness ==
    /\ last.op = "create_instance"
    /\ last.detail = "no instance id from vendor"

\* C26: a start/stop request whose action is neither start nor stop, or
\* whose caller has no instance_id or no instance_uuid, is rejected with no
\* vendor call (no status read, no command sent, the vendor's statuses as
\* before) and no change to any user.
C26_ActionNeedsInstance ==
    [][ last'.op \in Actions =>
          \A u \in UserIds, act \in Actions, net \in Net :
            ( /\ last'.id = u /\ last'.op = act
              /\ \/ act \notin {"start", "stop"}
                 \/ users[u].instance_id = Null
                 \/ users[u].instance_uuid = NullS
              /\ PortalAction(u, act, net) )
            => /\ last'.detail \in {"invalid action", "no instance configured"}
               /\ last'.read = Null
               /\ last'.sent = 0
               /\ UNCHANGED <<users, vstatus>>
      ]_vars

\* a start by a user who has an instance_id and no instance_uuid has just
\* been rejected
C26_Witness ==
    /\ last.op = "start"
    /\ last.detail = "no instance configured"
    /\ users[last.id].instance_id # Null
    /\ users[last.id].instance_uuid = NullS

\* C28: a delete-user of U that succeeds leaves every GpuInstance assigned
\* to a user other than U with its assigned_user_id, and every other user
\* with its row.
C28_DeleteUserFrame ==
    [][ (last'.op = "delete_user" /\ last'.detail = "ok") =>
          /\ \A g \in DOMAIN instances :
               instances[g].assigned_user_id \notin {Null, last'.id} =>
                 /\ g \in DOMAIN instances'
                 /\ instances'[g].assigned_user_id = instances[g].assigned_user_id
          /\ \A v \in DOMAIN users \ {last'.id} :
               v \in DOMAIN users' /\ users'[v] = users[v]
      ]_vars

\* C29: an admin with a null owner is never removed and keeps being an
\* admin with a null owner, a delete-user aimed at one is rejected and
\* changes neither table, and at least one admin exists.
C29_SeededAdminStays ==
    /\ [](\E u \in DOMAIN users : users[u].is_admin)
    /\ [][ /\ \A u \in DOMAIN users :
                (users[u].is_admin /\ users[u].owner = NullS) =>
                  /\ u \in DOMAIN users'
                  /\ users'[u].is_admin /\ users'[u].owner = NullS
           /\ last'.op = "delete_user" =>
                \A c \in UserIds, uid \in UserIds :
                  ( /\ uid \in DOMAIN users
                    /\ users[uid].owner = NullS
                    /\ DeleteUser(c, uid) )
                  => (last'.detail # "ok" /\ UNCHANGED db)
          ]_vars

\* the admin the seeded admin created has just been refused a delete-user:
\* with these two rows the only refusal for the owner is the one aimed at
\* the seeded admin
C29_Witness ==
    /\ last.op = "delete_user"
    /\ last.detail = "not your user"
    /\ DOMAIN users = {1, 2}
    /\ users[1].owner = NullS /\ users[1].username = "admin"
    /\ users[2].is_admin /\ users[2].owner = "admin"

\* C27: a pass of the inactivity loop that runs less than the inactivity
\* timeout after a user's successful start, with no request since the
\* start, attempts no stop for that user.
C27_NoStopRightAfterStart ==
    [][ ( /\ PollStep
          /\ last.op = "start"
          /\ last.detail = "ok"
          /\ now - last.at < INACTIVITY_TIMEOUT )
        => last.id \notin DOMAIN last'.log ]_vars

HeldByOther(uid, username, email, phone) ==
    \E u \in DOMAIN users \ {uid} :
        \/ username # NullS /\ users[u].username = username
        \/ TruthyS(email) /\ users[u].email = email
        \/ TruthyS(phone) /\ users[u].phone = phone

\* C24: no two users share a username, a non-null email or a non-null
\* phone; a create-user or update-user whose username, given email or given
\* phone is held by another user is rejected by one of the handler's checks
\* and changes neither table.
C24_UserIdentityUnique ==
    /\ [](\A u, v \in DOMAIN users :
            u # v => /\ users[u].username # users[v].username
                     /\ users[u].email # NullS => users[u].email # users[v].email
                     /\ users[u].phone # NullS => users[u].phone # users[v].phone)
    /\ [][ /\ last'.op = "create_user" =>
                \A c \in UserIds, req \in UniqueRequests :
                  ( /\ CurrentAdminUser(c)
                    /\ HeldByOther(Null, req.username, req.email, req.phone)
                    /\ CreateUser(c, req) )
                  => (last'.detail \notin {"ok", "integrity error"} /\ UNCHANGED db)
           /\ last'.op = "update_user" =>
                \A c \in UserIds, uid \in UserIds, patch \in UniquePatches :
                  ( /\ CurrentAdminUser(c)
                    /\ uid \in DOMAIN users
                    /\ HeldByOther(uid, patch.username, patch.email, patch.phone)
                    /\ UpdateUser(c, uid, patch) )
                  => (last'.detail \notin {"ok", "integrity error"} /\ UNCHANGED db)
          ]_vars

\* an update-user has just been refused an email that another of the three
\* users has
C24_Witness ==
    /\ last.op = "update_user"
    /\ last.detail = "email exists"
    /\ Cardinality(DOMAIN users) = 3

\* the pass of check_inactive_users that has just run selected u
SelectedByPass(u) ==
    /\ last.op = "check_inactive_users"
    /\ u \in DOMAIN last.log

\* the pass of check_inactive_users that has just run stopped u's instance
StoppedByPass(u) ==
    /\ SelectedByPass(u)
    /\ last.log[u].outcome = "stopped"

\* u has asked for something itself: a heartbeat, or a stop through the portal
ActedItself(u) ==
    /\ last.id = u
    /\ \/ last.op = "heartbeat"
       \/ last.op = "stop" /\ last.detail = "ok"

\* C21: a pass of the inactivity loop whose stop for a selected user fails
\* leaves that user's row as it was, so the query of the loop still selects
\* the user; and if the vendor's stop for a user does not fail for ever
\* (a user selected by pass after pass is stopped by one of them), a user
\* the query selects is in the end inactive with no heartbeat, unless the
\* user acts itself in between.
C21_RetryByRepolling ==
    /\ [][ \A u \in UserIds :
             ( /\ last'.op = "check_inactive_users"
               /\ u \in DOMAIN last'.log
               /\ last'.log[u].outcome # "stopped"
               /\ CheckInactiveUsers({TRUE}) )
             => ( /\ u \in InactiveUsers(users, now)
                  /\ users'[u] = users[u]
                  /\ u \in InactiveUsers(users', now') ) ]_vars
    /\ \A u \in UserIds :
         ([]<>SelectedByPass(u) => []<>StoppedByPass(u))
         => ( (u \in DOMAIN users /\ u \in InactiveUsers(users, now))
              ~> ( \/ ( /\ u \in DOMAIN users
                       /\ users[u].state = "inactive"
                       /\ users[u].last_heartbeat = Null )
                   \/ ActedItself(u) ) )

\* a pass has just failed to stop a user, who is still selected by the query
C21_Witness ==
    /\ last.op = "check_inactive_users"
    /\ \E u \in DOMAIN last.log :
         /\ last.log[u].outcome = "failed"
         /\ u \in InactiveUsers(users, now)

\* background task l is between its query and the end of its `for`
MidPass(l) == sched[l].pc # "sleep"

\* the users task l has selected and not yet finished with
Pending(l) ==
    IF MidPass(l) THEN { sched[l].sel[i] : i \in DOMAIN sched[l].sel } ELSE {}

\* C22: no user is at the same time selected and not yet finished with by
\* both background loops; a loop that is between its query and the end of
\* its `for` holds the event loop; no request handler takes a step while
\* either loop is there; and no heartbeat of a user is written while the
\* inactivity loop has selected that user and not yet finished with it.
C22_PassesDoNotInterleave ==
    /\ [](\A u \in UserIds : ~(u \in Pending("poll") /\ u \in Pending("daily")))
    /\ [](\A l \in Loops : MidPass(l) => sched.holder = l)
    /\ [][ ( /\ sched' = sched
             /\ now' = now
             /\ HandlerStep )
           => \A l \in Loops : ~MidPass(l) ]_vars
    /\ [][ \A u \in UserIds :
             ( /\ sched' = sched
               /\ users' # users
               /\ Heartbeat(u) )
             => u \notin Pending("poll") ]_vars

\* the inactivity loop has stopped a stale user and is about to commit,
\* while the daily loop, which selects the same user, is due
C22_Witness ==
    /\ sched.poll.pc = "commit"
    /\ sched.poll.res
    /\ Head(sched.poll.sel) \in UsersWithInstances(users)
    /\ sched.daily.pc = "sleep"
    /\ dsPc = "sleep"
    /\ now >= dsWake - MaxSkew

====
